---- MODULE Spec2Model ----
(***************************************************************************)
(* Cache replacement policies of time-decayed-caching: CachePolicy and its *)
(* four subclasses LRUCache, LFUCache, ARCCache and TimeDecayedCache.      *)
(*                                                                         *)
(* An instance is a record whose fields are the object's attributes.  An   *)
(* OrderedDict whose values are always True is the sequence of its keys,   *)
(* least recent first.  A plain dict is a function on its key set, except  *)
(* TimeDecayedCache.cache, whose iteration order decides ties: it is the   *)
(* sequence of its (item, score) entries in insertion order.               *)
(*                                                                         *)
(* Scores are exact: decay_rate is a fraction num/den and a score x is the *)
(* integer x * den^MaxTime.  Every division by den that a decay performs   *)
(* is exact while time <= MaxTime, and for the dyadic rates used here the  *)
(* IEEE doubles of the source are exact as well.  One more rate stands for *)
(* the doubles whose square underflows to 0.0 (1e-200, say): one step of   *)
(* decay leaves the smallest positive score, a second step leaves zero.    *)
(* The default rate 0.99 is the fraction 99/100, its scores scaled by       *)
(* 100^DefaultMaxTime.                                                     *)
(*                                                                         *)
(* A call that raises leaves the instance as it was at the raise, and ret  *)
(* names the exception.  The caller may go on using the instance, so the   *)
(* states after a raise are states of the model too.                       *)
(***************************************************************************)
EXTENDS Integers, Sequences, FiniteSets, TLC

\* ---------------------------------------------------------------- bounds
MaxCapacity == 3
NumItems == 4
MaxTime == 6
\* calls made on an instance built with the default decay_rate
DefaultMaxTime == 3
\* calls made on an ARCCache that is followed further than MaxTime
ArcMaxTime == 8

Items == 0 .. (NumItems - 1)
Capacities == 1 .. MaxCapacity
Classes == {"LRUCache", "LFUCache", "ARCCache", "TimeDecayedCache"}
\* decay_rate is a constructor argument in (0, 1); the rate drawn is dyadic
\* and weighs frequency (the rates that behave like LRU are SmallDecayRates)
DecayRates == {[num |-> 3, den |-> 4]}

\* ------------------------------------------------------- python helpers
Max(a, b) == IF a >= b THEN a ELSE b
Min(a, b) == IF a <= b THEN a ELSE b

RECURSIVE Pow(_, _)
Pow(b, e) == IF e = 0 THEN 1 ELSE b * Pow(b, e - 1)

\* `x in d` for an OrderedDict of keys
Contains(d, x) == \E i \in DOMAIN d : d[i] = x
Keys(d) == {d[i] : i \in DOMAIN d}
\* `del d[x]` (the caller decides what a missing key raises)
DelItem(d, x) == SelectSeq(d, LAMBDA y : y # x)
\* `d[x] = True`: a new key goes to the end, an existing key keeps its place
SetItem(d, x) == IF Contains(d, x) THEN d ELSE Append(d, x)
\* `d.move_to_end(x, last=False)`: the key goes to the least-recent end
MoveToEnd_first(d, x) == <<x>> \o SelectSeq(d, LAMBDA y : y # x)
\* `d.move_to_end(x)`
MoveToEnd(d, x) == Append(DelItem(d, x), x)
\* `d.popitem(last=False)`: the remaining dict and the removed key
PopFirst(d) == Tail(d)
First(d) == Head(d)

\* a plain dict as a function: `d[k] = v` and `del d[k]`
DictSet(d, k, v) == [x \in (DOMAIN d) \cup {k} |-> IF x = k THEN v ELSE d[x]]
DictDel(d, k) == [x \in (DOMAIN d) \ {k} |-> d[x]]
EmptyDict == [x \in {} |-> 0]

\* --------------------------------------------------------- CachePolicy
get_hit_ratio(self) ==
  LET total == self.hits + self.misses
  IN  IF total > 0 THEN [num |-> self.hits, den |-> total]
                   ELSE [num |-> 0, den |-> 1]

get_stats(self) ==
  [hits |-> self.hits, misses |-> self.misses, hit_ratio |-> get_hit_ratio(self)]

\* ------------------------------------------------------------ LRUCache
LRUCache_init(capacity) ==
  [class |-> "LRUCache", capacity |-> capacity, hits |-> 0, misses |-> 0,
   time |-> 0, cache |-> <<>>]

LRU_full_strict(self) == Len(self.cache) > self.capacity
LRU_full(self) == Len(self.cache) >= self.capacity

\* a hit that leaves the item where it is: first in, first out
LRUCache_access_fifo(self, item) ==
  LET s0 == [self EXCEPT !.time = @ + 1]
  IN  IF Contains(s0.cache, item)
      THEN [self |-> [s0 EXCEPT !.hits = @ + 1], ret |-> "True"]
      ELSE LET s1 == [s0 EXCEPT !.misses = @ + 1]
               s2 == IF LRU_full(s1) THEN [s1 EXCEPT !.cache = PopFirst(@)] ELSE s1
           IN  [self |-> [s2 EXCEPT !.cache = SetItem(@, item)], ret |-> "False"]

LRUCache_access(self, item) ==
  LET s0 == [self EXCEPT !.time = @ + 1]
  IN  IF Contains(s0.cache, item)
      THEN [self |-> [s0 EXCEPT !.cache = MoveToEnd(@, item), !.hits = @ + 1],
            ret |-> "True"]
      ELSE LET s1 == [s0 EXCEPT !.misses = @ + 1]
               s2 == IF LRU_full(s1) THEN [s1 EXCEPT !.cache = PopFirst(@)] ELSE s1
           IN  [self |-> [s2 EXCEPT !.cache = SetItem(@, item)], ret |-> "False"]

LRUCache_reset(self) ==
  [self EXCEPT !.cache = <<>>, !.hits = 0, !.misses = 0, !.time = 0]

\* ------------------------------------------------------------ LFUCache
LFUCache_init(capacity) ==
  [class |-> "LFUCache", capacity |-> capacity, hits |-> 0, misses |-> 0,
   time |-> 0, cache |-> EmptyDict, freq_to_items |-> EmptyDict, min_freq |-> 0]

\* defaultdict(OrderedDict).__getitem__: a missing key is created empty
DefaultGet(d, k) == IF k \in DOMAIN d THEN d ELSE DictSet(d, k, <<>>)

\* a hit branch that leaves min_freq behind when its bucket empties
LFU_hit_stale_min(s0, item) ==
  LET freq == s0.cache[item]
      f0   == DefaultGet(s0.freq_to_items, freq)
  IN  IF ~Contains(f0[freq], item)
      THEN [self |-> [s0 EXCEPT !.freq_to_items = f0], ret |-> "KeyError"]
      ELSE
        LET f1 == DictSet(f0, freq, DelItem(f0[freq], item))
            emptied == f1[freq] = <<>>
            f2 == IF emptied THEN DictDel(f1, freq) ELSE f1
            f3 == DefaultGet(f2, freq + 1)
            f4 == DictSet(f3, freq + 1, SetItem(f3[freq + 1], item))
        IN  [self |-> [s0 EXCEPT !.cache = DictSet(@, item, freq + 1),
                                 !.freq_to_items = f4,
                                 !.hits = @ + 1],
             ret |-> "True"]

\* the hit branch of LFUCache.access
LFU_hit(s0, item) ==
  LET freq == s0.cache[item]
      f0   == DefaultGet(s0.freq_to_items, freq)
  IN  IF ~Contains(f0[freq], item)
      THEN [self |-> [s0 EXCEPT !.freq_to_items = f0], ret |-> "KeyError"]
      ELSE
        LET f1 == DictSet(f0, freq, DelItem(f0[freq], item))
            emptied == f1[freq] = <<>>
            f2 == IF emptied THEN DictDel(f1, freq) ELSE f1
            mf == IF emptied /\ s0.min_freq = freq THEN s0.min_freq + 1
                                                    ELSE s0.min_freq
            f3 == DefaultGet(f2, freq + 1)
            f4 == DictSet(f3, freq + 1, SetItem(f3[freq + 1], item))
        IN  [self |-> [s0 EXCEPT !.cache = DictSet(@, item, freq + 1),
                                 !.freq_to_items = f4,
                                 !.min_freq = mf,
                                 !.hits = @ + 1],
             ret |-> "True"]

LFU_full(s) == Cardinality(DOMAIN s.cache) >= s.capacity

\* an eviction that takes the newest item of the min_freq bucket
LFU_evict_newest(s1) ==
  LET f0 == DefaultGet(s1.freq_to_items, s1.min_freq)
      lfu_items == f0[s1.min_freq]
  IN  IF lfu_items = <<>>
      THEN [self |-> [s1 EXCEPT !.freq_to_items = f0], ret |-> "StopIteration"]
      ELSE
        LET evict_item == lfu_items[Len(lfu_items)]
            f1 == DictSet(f0, s1.min_freq, DelItem(lfu_items, evict_item))
            f2 == IF f1[s1.min_freq] = <<>> THEN DictDel(f1, s1.min_freq) ELSE f1
        IN  IF evict_item \notin DOMAIN s1.cache
            THEN [self |-> [s1 EXCEPT !.freq_to_items = f2], ret |-> "KeyError"]
            ELSE [self |-> [s1 EXCEPT !.freq_to_items = f2,
                                      !.cache = DictDel(@, evict_item)],
                  ret |-> "None"]

\* the eviction of the miss branch: the instance, or the exception raised
LFU_evict(s1) ==
  LET f0 == DefaultGet(s1.freq_to_items, s1.min_freq)
      lfu_items == f0[s1.min_freq]
  IN  IF lfu_items = <<>>
      THEN [self |-> [s1 EXCEPT !.freq_to_items = f0], ret |-> "StopIteration"]
      ELSE
        LET evict_item == First(lfu_items)
            f1 == DictSet(f0, s1.min_freq, PopFirst(lfu_items))
            f2 == IF f1[s1.min_freq] = <<>> THEN DictDel(f1, s1.min_freq) ELSE f1
        IN  IF evict_item \notin DOMAIN s1.cache
            THEN [self |-> [s1 EXCEPT !.freq_to_items = f2], ret |-> "KeyError"]
            ELSE [self |-> [s1 EXCEPT !.freq_to_items = f2,
                                      !.cache = DictDel(@, evict_item)],
                  ret |-> "None"]

\* the insertion that ends the miss branch
LFU_insert(s, item) ==
  LET f0 == DefaultGet(s.freq_to_items, 1)
  IN  [s EXCEPT !.cache = DictSet(@, item, 1),
                !.freq_to_items = DictSet(f0, 1, SetItem(f0[1], item)),
                !.min_freq = 1]

LFUCache_access(self, item) ==
  LET s0 == [self EXCEPT !.time = @ + 1]
  IN  IF item \in DOMAIN s0.cache
      THEN LFU_hit(s0, item)
      ELSE LET s1 == [s0 EXCEPT !.misses = @ + 1]
               ev == IF LFU_full(s1) THEN LFU_evict(s1)
                                     ELSE [self |-> s1, ret |-> "None"]
           IN  IF ev.ret # "None" THEN ev
               ELSE [self |-> LFU_insert(ev.self, item), ret |-> "False"]

LFUCache_reset(self) ==
  [self EXCEPT !.cache = EmptyDict, !.freq_to_items = EmptyDict, !.min_freq = 0,
               !.hits = 0, !.misses = 0, !.time = 0]

\* ------------------------------------------------------------ ARCCache
ARCCache_init_double_c(capacity) ==
  [class |-> "ARCCache", capacity |-> capacity, hits |-> 0, misses |-> 0,
   time |-> 0, c |-> 2 * capacity, p |-> 0,
   t1 |-> <<>>, t2 |-> <<>>, b1 |-> <<>>, b2 |-> <<>>]

ARCCache_init(capacity) ==
  [class |-> "ARCCache", capacity |-> capacity, hits |-> 0, misses |-> 0,
   time |-> 0, c |-> capacity, p |-> 0,
   t1 |-> <<>>, t2 |-> <<>>, b1 |-> <<>>, b2 |-> <<>>]

\* move the least recent key of a resident list to the end of its ghost list,
\* capping the ghost list at c
EvictT1(s) ==
  LET old == First(s.t1)
      b   == SetItem(s.b1, old)
  IN  [s EXCEPT !.t1 = PopFirst(@),
                !.b1 = IF Len(b) > s.c THEN PopFirst(b) ELSE b]

\* an eviction from T2 that records its ghost in B1
EvictT2_wrong_ghost(s) ==
  LET old == First(s.t2)
      b   == SetItem(s.b1, old)
  IN  [s EXCEPT !.t2 = PopFirst(@),
                !.b1 = IF Len(b) > s.c THEN PopFirst(b) ELSE b]

EvictT2(s) ==
  LET old == First(s.t2)
      b   == SetItem(s.b2, old)
  IN  [s EXCEPT !.t2 = PopFirst(@),
                !.b2 = IF Len(b) > s.c THEN PopFirst(b) ELSE b]

\* a replacement that shrinks T1 only when it exceeds p, whatever in_b2 is
ARC_replace_ignores_in_b2(s, in_b2) ==
  IF s.t1 # <<>> /\ Len(s.t1) > s.p
  THEN EvictT1(s)
  ELSE IF s.t2 # <<>> THEN EvictT2(s) ELSE s

ARC_replace(s, in_b2) ==
  IF s.t1 # <<>> /\ ((in_b2 /\ Len(s.t1) = s.p) \/ Len(s.t1) > s.p)
  THEN EvictT1(s)
  ELSE IF s.t2 # <<>> THEN EvictT2(s) ELSE s

\* Case 1: hit in T1, hit in T2
ARC_hit_t1_kept(s0, item) ==
  [self |-> [s0 EXCEPT !.t2 = SetItem(@, item), !.hits = @ + 1], ret |-> "True"]

ARC_hit_t1(s0, item) ==
  [self |-> [s0 EXCEPT !.t1 = DelItem(@, item), !.t2 = SetItem(@, item),
                       !.hits = @ + 1],
   ret |-> "True"]

ARC_hit_t2_uncounted(s0, item) ==
  [self |-> [s0 EXCEPT !.t2 = MoveToEnd(@, item)], ret |-> "True"]

ARC_hit_t2(s0, item) ==
  [self |-> [s0 EXCEPT !.t2 = MoveToEnd(@, item), !.hits = @ + 1], ret |-> "True"]

\* Case 2: ghost hit in B1
ARC_adapt_b1_reversed(s1) ==
  LET delta == Max(1, Len(s1.b2) \div Max(1, Len(s1.b1)))
  IN  [s1 EXCEPT !.p = Max(0, s1.p - delta)]

ARC_adapt_b1(s1) ==
  LET delta == Max(1, Len(s1.b2) \div Max(1, Len(s1.b1)))
  IN  [s1 EXCEPT !.p = Min(s1.c, s1.p + delta)]

ARC_ghost_b1(s1, item) ==
  LET s2 == ARC_replace(ARC_adapt_b1(s1), FALSE)
  IN  IF ~Contains(s2.b1, item)
      THEN [self |-> s2, ret |-> "KeyError"]
      ELSE [self |-> [s2 EXCEPT !.b1 = DelItem(@, item), !.t2 = SetItem(@, item)],
            ret |-> "False"]

\* Case 3: ghost hit in B2
ARC_adapt_b2_unclamped(s1) ==
  LET delta == Max(1, Len(s1.b1) \div Max(1, Len(s1.b2)))
  IN  [s1 EXCEPT !.p = s1.p - delta]

ARC_adapt_b2(s1) ==
  LET delta == Max(1, Len(s1.b1) \div Max(1, Len(s1.b2)))
  IN  [s1 EXCEPT !.p = Max(0, s1.p - delta)]

ARC_ghost_b2(s1, item) ==
  LET s2 == ARC_replace(ARC_adapt_b2(s1), TRUE)
  IN  IF ~Contains(s2.b2, item)
      THEN [self |-> s2, ret |-> "KeyError"]
      ELSE [self |-> [s2 EXCEPT !.b2 = DelItem(@, item), !.t2 = SetItem(@, item)],
            ret |-> "False"]

\* Case 4: complete miss
\* a complete miss that records a ghost for the item a full T1 gives up
ARC_make_room_ghosts(s1) ==
  LET l1 == Len(s1.t1) + Len(s1.b1)
      l2 == Len(s1.t2) + Len(s1.b2)
  IN  IF l1 = s1.c
      THEN IF Len(s1.t1) < s1.c
           THEN ARC_replace([s1 EXCEPT !.b1 = PopFirst(@)], FALSE)
           ELSE EvictT1(s1)
      ELSE IF l1 < s1.c /\ l1 + l2 >= s1.c
           THEN ARC_replace(
                  IF l1 + l2 >= 2 * s1.c /\ s1.b2 # <<>>
                  THEN [s1 EXCEPT !.b2 = PopFirst(@)] ELSE s1,
                  FALSE)
           ELSE s1

ARC_make_room(s1) ==
  LET l1 == Len(s1.t1) + Len(s1.b1)
      l2 == Len(s1.t2) + Len(s1.b2)
  IN  IF l1 = s1.c
      THEN IF Len(s1.t1) < s1.c
           THEN ARC_replace([s1 EXCEPT !.b1 = PopFirst(@)], FALSE)
           ELSE [s1 EXCEPT !.t1 = PopFirst(@)]
      ELSE IF l1 < s1.c /\ l1 + l2 >= s1.c
           THEN ARC_replace(
                  IF l1 + l2 >= 2 * s1.c /\ s1.b2 # <<>>
                  THEN [s1 EXCEPT !.b2 = PopFirst(@)] ELSE s1,
                  FALSE)
           ELSE s1

ARC_add_to_t1(s2, item) ==
  LET s3 == IF Len(s2.t1) + Len(s2.t2) >= s2.c
            THEN IF s2.t1 # <<>> THEN EvictT1(s2)
                 ELSE IF s2.t2 # <<>> THEN EvictT2(s2) ELSE s2
            ELSE s2
  IN  [s3 EXCEPT !.t1 = SetItem(@, item)]

\* a complete miss that goes straight to the insertion
ARC_complete_miss_no_room(s1, item) ==
  [self |-> ARC_add_to_t1(s1, item), ret |-> "False"]

ARC_complete_miss(s1, item) ==
  [self |-> ARC_add_to_t1(ARC_make_room(s1), item), ret |-> "False"]

ARCCache_access(self, item) ==
  LET s0 == [self EXCEPT !.time = @ + 1]
  IN  IF Contains(s0.t1, item) THEN ARC_hit_t1(s0, item)
      ELSE IF Contains(s0.t2, item) THEN ARC_hit_t2(s0, item)
      ELSE LET s1 == [s0 EXCEPT !.misses = @ + 1]
           IN  IF Contains(s1.b1, item) THEN ARC_ghost_b1(s1, item)
               ELSE IF Contains(s1.b2, item) THEN ARC_ghost_b2(s1, item)
               ELSE ARC_complete_miss(s1, item)

ARCCache_reset_keeps_p(self) ==
  [self EXCEPT !.t1 = <<>>, !.t2 = <<>>, !.b1 = <<>>, !.b2 = <<>>,
               !.hits = 0, !.misses = 0, !.time = 0]

ARCCache_reset(self) ==
  [self EXCEPT !.p = 0, !.t1 = <<>>, !.t2 = <<>>, !.b1 = <<>>, !.b2 = <<>>,
               !.hits = 0, !.misses = 0, !.time = 0]

\* ---------------------------------------------------- TimeDecayedCache
\* the score 1.0
One == Pow(4, MaxTime)

\* a decay_rate whose square underflows: 1.0 * rate is the smallest positive
\* score and rate ** 2 is 0.0
UnderflowRate == [num |-> 1, den |-> One]
AllDecayRates == DecayRates \cup {UnderflowRate}

\* the default of the decay_rate parameter, 0.99, and its score 1.0
DefaultDecayRate == [num |-> 99, den |-> 100]
DefaultOne == Pow(100, DefaultMaxTime)
ScoreOne(decay_rate) == IF decay_rate = DefaultDecayRate THEN DefaultOne ELSE One

TimeDecayedCache_init(capacity, decay_rate) ==
  [class |-> "TimeDecayedCache", capacity |-> capacity, hits |-> 0, misses |-> 0,
   time |-> 0, decay_rate |-> decay_rate, cache |-> <<>>,
   last_update_time |-> EmptyDict]

\* TimeDecayedCache(capacity): decay_rate takes its default
TimeDecayedCache_init_default(capacity) ==
  TimeDecayedCache_init(capacity, DefaultDecayRate)

\* self.cache: item -> score, in insertion order
TDC_keys(cache) == {cache[i].item : i \in DOMAIN cache}
TDC_get(cache, item) == cache[CHOOSE i \in DOMAIN cache : cache[i].item = item].score
TDC_set(cache, item, score) ==
  IF item \in TDC_keys(cache)
  THEN [i \in DOMAIN cache |->
          IF cache[i].item = item THEN [item |-> item, score |-> score] ELSE cache[i]]
  ELSE Append(cache, [item |-> item, score |-> score])
TDC_del(cache, item) == SelectSeq(cache, LAMBDA e : e.item # item)

\* score * decay_rate ** time_diff
RECURSIVE Decay(_, _, _)
Decay(score, decay_rate, time_diff) ==
  IF time_diff <= 0 THEN score
  ELSE Decay((score \div decay_rate.den) * decay_rate.num, decay_rate, time_diff - 1)

\* an update that returns the stored score without decaying it
TDC_update_score_undecayed(self, item) ==
  IF item \notin TDC_keys(self.cache) THEN 0
  ELSE TDC_get(self.cache, item)

TDC_update_score(self, item) ==
  IF item \notin TDC_keys(self.cache) THEN 0
  ELSE Decay(TDC_get(self.cache, item), self.decay_rate,
             self.time - self.last_update_time[item])

\* a hit branch that leaves last_update_time as it was
TDC_hit_unstamped(s0, item) ==
  LET current_score == TDC_update_score(s0, item)
  IN  [self |-> [s0 EXCEPT !.cache = TDC_set(@, item, current_score + ScoreOne(s0.decay_rate)),
                           !.hits = @ + 1],
       ret |-> "True"]

\* the hit branch of TimeDecayedCache.access
TDC_hit(s0, item) ==
  LET current_score == TDC_update_score(s0, item)
  IN  [self |-> [s0 EXCEPT !.cache = TDC_set(@, item, current_score + ScoreOne(s0.decay_rate)),
                           !.last_update_time = DictSet(@, item, s0.time),
                           !.hits = @ + 1],
       ret |-> "True"]

\* `score <= min_score`: the last of several equal scores would win
TDC_less_or_equal(score, min) == min = <<>> \/ score <= min[2]

\* `score < min_score`, min being <<>> while min_score is float('inf')
TDC_less(score, min) == min = <<>> \/ score < min[2]

\* the eviction loop from its i-th entry on: every entry is decayed to the
\* current time and stored, min is <<min_item, min_score>> (<<>> for None)
RECURSIVE TDC_scan(_, _, _)
TDC_scan(s, i, min) ==
  IF i > Len(s.cache) THEN [self |-> s, min |-> min]
  ELSE LET cached_item == s.cache[i].item
           score == TDC_update_score(s, cached_item)
           s2 == [s EXCEPT !.cache = TDC_set(@, cached_item, score),
                           !.last_update_time = DictSet(@, cached_item, s.time)]
       IN  TDC_scan(s2, i + 1,
                    IF TDC_less(score, min) THEN <<cached_item, score>> ELSE min)

TDC_full(s) == Len(s.cache) >= s.capacity

\* an eviction that picks its victim from the decayed scores without storing them
TDC_evict_unpersisted(s1) ==
  LET r == TDC_scan(s1, 1, <<>>)
  IN  IF r.min # <<>>
      THEN [s1 EXCEPT !.cache = TDC_del(@, r.min[1]),
                      !.last_update_time = DictDel(@, r.min[1])]
      ELSE s1

TDC_evict(s1) ==
  LET r == TDC_scan(s1, 1, <<>>)
  IN  IF r.min # <<>>
      THEN [r.self EXCEPT !.cache = TDC_del(@, r.min[1]),
                          !.last_update_time = DictDel(@, r.min[1])]
      ELSE r.self

TDC_insert(s, item) ==
  [s EXCEPT !.cache = TDC_set(@, item, ScoreOne(s.decay_rate)),
            !.last_update_time = DictSet(@, item, s.time)]

TimeDecayedCache_access(self, item) ==
  LET s0 == [self EXCEPT !.time = @ + 1]
  IN  IF item \in TDC_keys(s0.cache)
      THEN TDC_hit(s0, item)
      ELSE LET s1 == [s0 EXCEPT !.misses = @ + 1]
               s2 == IF TDC_full(s1) THEN TDC_evict(s1) ELSE s1
           IN  [self |-> TDC_insert(s2, item), ret |-> "False"]

TimeDecayedCache_reset(self) ==
  [self EXCEPT !.cache = <<>>, !.last_update_time = EmptyDict,
               !.hits = 0, !.misses = 0, !.time = 0]

\* ------------------------------------------------------------ dispatch
Construct(class, capacity, decay_rate) ==
  CASE class = "LRUCache" -> LRUCache_init(capacity)
    [] class = "LFUCache" -> LFUCache_init(capacity)
    [] class = "ARCCache" -> ARCCache_init(capacity)
    [] class = "TimeDecayedCache" -> TimeDecayedCache_init(capacity, decay_rate)

\* the constructor call that built an instance
Fresh(s) ==
  IF s.class = "TimeDecayedCache"
  THEN TimeDecayedCache_init(s.capacity, s.decay_rate)
  ELSE Construct(s.class, s.capacity, <<>>)

\* the resident set of an instance
Resident(s) ==
  CASE s.class = "LRUCache" -> Keys(s.cache)
    [] s.class = "LFUCache" -> DOMAIN s.cache
    [] s.class = "ARCCache" -> Keys(s.t1) \cup Keys(s.t2)
    [] s.class = "TimeDecayedCache" -> TDC_keys(s.cache)

\* len() of the resident structures
ResidentCount(s) ==
  CASE s.class = "LRUCache" -> Len(s.cache)
    [] s.class = "LFUCache" -> Cardinality(DOMAIN s.cache)
    [] s.class = "ARCCache" -> Len(s.t1) + Len(s.t2)
    [] s.class = "TimeDecayedCache" -> Len(s.cache)

\* --------------------------------------------------------------- state
\* self      the policy instance under test
\* fresh     a reference instance, constructed with the same parameters when
\*           self was constructed or last reset, and given the same accesses
\* old       self as it was before the last call
\* op, item  the last call ("construct", "access", "reset") and its argument
\* ret       what the last call returned ("True", "False", "None") or raised
\* fresh_ret what the same access returned or raised on fresh
\* ncalls    the number of access calls since construction or the last reset
\* reset_seen  whether reset has been called on self
\* acc       for every item, the times (self.time of the call) of its accesses
\*           since it last became resident; kept when the item is evicted,
\*           emptied by reset
\* input     the access sequence a replaying driver feeds (<<>> when the
\*           driver chooses each access freely)
VARIABLES self, fresh, old, op, item, ret, fresh_ret, ncalls, reset_seen,
          acc, input
vars == <<self, fresh, old, op, item, ret, fresh_ret, ncalls, reset_seen,
          acc, input>>

\* the state right after the constructor built instance s, beside reference f
Constructed(s, f) ==
  /\ self = s
  /\ fresh = f
  /\ old = s
  /\ op = "construct"
  /\ item = 0
  /\ ret = "None"
  /\ fresh_ret = "None"
  /\ ncalls = 0
  /\ reset_seen = FALSE
  /\ acc = [i \in Items |-> {}]

Init ==
  /\ \E class \in Classes, capacity \in Capacities, decay_rate \in AllDecayRates :
       /\ class # "TimeDecayedCache" => decay_rate = [num |-> 3, den |-> 4]
       /\ Constructed(Construct(class, capacity, decay_rate),
                      Construct(class, capacity, decay_rate))
  /\ input = <<>>

Called(r, fr, i) ==
  /\ self' = r.self
  /\ ret' = r.ret
  /\ fresh' = fr.self
  /\ fresh_ret' = fr.ret
  /\ old' = self
  /\ op' = "access"
  /\ item' = i
  /\ ncalls' = ncalls + 1
  /\ acc' = [j \in (DOMAIN acc) \cup {i} |->
                IF j # i THEN acc[j]
                ELSE IF i \in Resident(self) THEN acc[i] \cup {r.self.time}
                                             ELSE {r.self.time}]
  /\ UNCHANGED <<reset_seen, input>>

LRUAccess(i) ==
  /\ self.class = "LRUCache"
  /\ self.time < MaxTime
  /\ Called(LRUCache_access(self, i), LRUCache_access(fresh, i), i)

LFUAccess(i) ==
  /\ self.class = "LFUCache"
  /\ self.time < MaxTime
  /\ Called(LFUCache_access(self, i), LFUCache_access(fresh, i), i)

ARCAccess(i) ==
  /\ self.class = "ARCCache"
  /\ self.time < MaxTime
  /\ Called(ARCCache_access(self, i), ARCCache_access(fresh, i), i)

TDCAccess(i) ==
  /\ self.class = "TimeDecayedCache"
  /\ self.time < MaxTime
  /\ Called(TimeDecayedCache_access(self, i), TimeDecayedCache_access(fresh, i), i)

WasReset(s) ==
  /\ self' = s
  /\ fresh' = Fresh(self)
  /\ old' = self
  /\ op' = "reset"
  /\ ret' = "None"
  /\ fresh_ret' = "None"
  /\ ncalls' = 0
  /\ reset_seen' = TRUE
  /\ acc' = [i \in DOMAIN acc |-> {}]
  /\ UNCHANGED <<item, input>>

LRUReset == self.class = "LRUCache" /\ WasReset(LRUCache_reset(self))
LFUReset == self.class = "LFUCache" /\ WasReset(LFUCache_reset(self))
ARCReset == self.class = "ARCCache" /\ WasReset(ARCCache_reset(self))
TDCReset == self.class = "TimeDecayedCache" /\ WasReset(TimeDecayedCache_reset(self))

Next ==
  \/ \E i \in Items : LRUAccess(i)
  \/ \E i \in Items : LFUAccess(i)
  \/ \E i \in Items : ARCAccess(i)
  \/ \E i \in Items : TDCAccess(i)
  \/ LRUReset
  \/ LFUReset
  \/ ARCReset
  \/ TDCReset

Spec == Init /\ [][Next]_vars

\* ------------------------------------------------- replaying a trace
\* run_single_experiment: a new instance is fed a given trace, item by item.
\* The traces are the golden trace of the specification and every trace that
\* differs from it in one place, on an LRUCache of the golden capacity.
GoldenTrace == <<1, 2, 3, 1, 2, 4, 1, 5>>
GoldenPattern ==
  <<"False", "False", "False", "True", "True", "False", "True", "False">>
GoldenItems == {GoldenTrace[k] : k \in DOMAIN GoldenTrace}
ReplayTraces ==
  {[GoldenTrace EXCEPT ![k] = v] : k \in DOMAIN GoldenTrace, v \in GoldenItems}

InitReplay ==
  /\ Constructed(LRUCache_init(3), LRUCache_init(3))
  /\ input \in ReplayTraces

Replay ==
  /\ self.class = "LRUCache"
  /\ ncalls < Len(input)
  /\ Called(LRUCache_access(self, input[ncalls + 1]),
            LRUCache_access(fresh, input[ncalls + 1]), input[ncalls + 1])

NextReplay == Replay

SpecReplay == InitReplay /\ [][NextReplay]_vars

\* ----------------------------------------------- two policies, one trace
\* the driver gives each policy its own instance and feeds all of them the
\* same accesses: self is a TimeDecayedCache with a small decay_rate and
\* fresh is an LRUCache of the same capacity
SmallDecayRates == {[num |-> 1, den |-> 2], [num |-> 1, den |-> 4]}

InitPair ==
  /\ \E capacity \in Capacities, decay_rate \in SmallDecayRates :
       Constructed(TimeDecayedCache_init(capacity, decay_rate), LRUCache_init(capacity))
  /\ input = <<>>

PairAccess(i) ==
  /\ self.class = "TimeDecayedCache"
  /\ fresh.class = "LRUCache"
  /\ self.time < MaxTime
  /\ Called(TimeDecayedCache_access(self, i), LRUCache_access(fresh, i), i)

NextPair == \E i \in Items : PairAccess(i)

SpecPair == InitPair /\ [][NextPair]_vars

\* ------------------------------------- an instance built with defaults
InitDefault ==
  /\ \E capacity \in Capacities :
       Constructed(TimeDecayedCache_init_default(capacity),
                   TimeDecayedCache_init_default(capacity))
  /\ input = <<>>

DefaultAccess(i) ==
  /\ self.class = "TimeDecayedCache"
  /\ self.time < DefaultMaxTime
  /\ Called(TimeDecayedCache_access(self, i), TimeDecayedCache_access(fresh, i), i)

DefaultReset ==
  /\ self.class = "TimeDecayedCache"
  /\ WasReset(TimeDecayedCache_reset(self))

NextDefault ==
  \/ \E i \in Items : DefaultAccess(i)
  \/ DefaultReset

SpecDefault == InitDefault /\ [][NextDefault]_vars

\* ------------------------------------------- an ARCCache, followed longer
\* ARCCache compares items only for equality, so the traces are taken up to
\* renaming: item i is first accessed after items 0 .. i-1 have been
InitArc ==
  /\ \E capacity \in Capacities :
       Constructed(ARCCache_init(capacity), ARCCache_init(capacity))
  /\ input = <<>>

ArcLongAccess(i) ==
  /\ self.class = "ARCCache"
  /\ self.time < ArcMaxTime
  /\ \A j \in Items : j < i => acc[j] # {}
  /\ Called(ARCCache_access(self, i), ARCCache_access(fresh, i), i)

NextArc == \E i \in Items : ArcLongAccess(i)

SpecArc == InitArc /\ [][NextArc]_vars

\* --------------------------------------------------------------- claims
IsARC == self.class = "ARCCache"
Accessed == op = "access"
Returned == ret \in {"True", "False"}

\* the case of ARCCache.access that an access of i takes from s
ARC_case(s, i) ==
  IF Contains(s.t1, i) THEN "t1"
  ELSE IF Contains(s.t2, i) THEN "t2"
  ELSE IF Contains(s.b1, i) THEN "b1"
  ELSE IF Contains(s.b2, i) THEN "b2"
  ELSE "miss"

\* reset() of the instance's class
Reset(s) ==
  CASE s.class = "LRUCache" -> LRUCache_reset(s)
    [] s.class = "LFUCache" -> LFUCache_reset(s)
    [] s.class = "ARCCache" -> ARCCache_reset(s)
    [] s.class = "TimeDecayedCache" -> TimeDecayedCache_reset(s)

\* C1: in every policy the resident set never holds more than capacity items,
\* after any sequence of access and reset calls.
C1_ResidentWithinCapacity ==
  /\ ResidentCount(self) <= self.capacity
  /\ Cardinality(Resident(self)) <= self.capacity

\* a miss on a full cache: one item left and the accessed one came in
C1_Witness ==
  /\ Accessed /\ ret = "False"
  /\ ResidentCount(old) = old.capacity
  /\ ResidentCount(self) = self.capacity
  /\ Resident(self) # Resident(old)

\* C2: hits + misses == time == number of access calls since construction or
\* the last reset; an access adds 1 to time and 1 to exactly one of hits, misses.
C2_CountersTrackCalls ==
  /\ self.hits + self.misses = self.time
  /\ self.time = ncalls
  /\ Accessed =>
       /\ self.time = old.time + 1
       /\ \/ self.hits = old.hits + 1 /\ self.misses = old.misses
          \/ self.hits = old.hits /\ self.misses = old.misses + 1

C2_Witness ==
  /\ Accessed /\ reset_seen
  /\ self.hits >= 2 /\ self.misses >= 2

\* C3: access returns true and counts a hit iff the item was resident before
\* the call; otherwise (a ghost entry of ARC included) it returns false and
\* counts a miss.
C3_HitIffResident ==
  Accessed =>
    IF item \in Resident(old)
    THEN ret = "True" /\ self.hits = old.hits + 1 /\ self.misses = old.misses
    ELSE ret = "False" /\ self.misses = old.misses + 1 /\ self.hits = old.hits

\* C4: right after access(item) the item is resident, whatever case the
\* access took.
C4_ResidentAfterAccess == Accessed => item \in Resident(self)

\* C5: access is total: every call returns a boolean and raises nothing.
C5_AccessTotal == Accessed => Returned

\* C6: T1, T2, B1 and B2 of an ARCCache are pairwise disjoint.
C6_ArcListsDisjoint ==
  IsARC =>
    /\ Keys(self.t1) \cap Keys(self.t2) = {}
    /\ Keys(self.t1) \cap Keys(self.b1) = {}
    /\ Keys(self.t1) \cap Keys(self.b2) = {}
    /\ Keys(self.t2) \cap Keys(self.b1) = {}
    /\ Keys(self.t2) \cap Keys(self.b2) = {}
    /\ Keys(self.b1) \cap Keys(self.b2) = {}

\* all four lists hold something after an access that moved keys between them
C6_Witness ==
  /\ IsARC /\ Accessed
  /\ self.t1 # <<>> /\ self.t2 # <<>> /\ self.b1 # <<>> /\ self.b2 # <<>>
  /\ self.t1 # <<>> /\ self.t2 # <<>> /\ self.b1 # <<>> /\ self.b2 # <<>>

\* C7: each ghost list of an ARCCache holds at most capacity keys.
C7_GhostListsBounded ==
  IsARC => Len(self.b1) <= self.capacity /\ Len(self.b2) <= self.capacity

\* a full ghost list took a new key and dropped its least recent one
C7_Witness ==
  /\ IsARC /\ Accessed
  /\ Len(old.b2) = old.capacity /\ Len(self.b2) = self.capacity
  /\ self.b2 # old.b2

\* C8: p is an integer with 0 <= p <= capacity, the state right after an
\* adaptation step included (p is not written again in the same access).
C8_TargetInRange ==
  IsARC => self.p \in 0 .. self.capacity

\* a B2 ghost hit whose step would have taken p below 0
C8_Witness ==
  /\ IsARC /\ Accessed
  /\ ARC_case(old, item) = "b2"
  /\ old.p = 0 /\ self.p = 0

\* C9: an access changes p only on a ghost hit: a B1 hit never lowers it and
\* raises it unless it is capacity already, a B2 hit never raises it, a hit
\* in T1 or T2 and a complete miss keep it; so no access that is not a B2
\* ghost hit lowers p, and p stays within capacity.
C9_TargetMoves ==
  (IsARC /\ Accessed) =>
    LET case == ARC_case(old, item)
    IN  /\ case = "b1" => /\ self.p >= old.p
                          /\ old.p < old.capacity => self.p > old.p
        /\ case = "b2" => self.p <= old.p
        /\ case \in {"t1", "t2", "miss"} => self.p = old.p
        /\ case # "b2" => self.p >= old.p /\ self.p <= self.capacity

\* a B1 ghost hit raised p
C9_Witness ==
  /\ IsARC /\ Accessed
  /\ ARC_case(old, item) = "b1"
  /\ self.p > old.p

\* C10: reset() zeroes hits, misses, time and the hit ratio and leaves the
\* instance as its constructor would; resetting again changes nothing; and
\* every access returns what it returns on an instance constructed afresh at
\* the time of the reset and given the same accesses.
C10_ResetIsFresh ==
  /\ op = "reset" =>
       /\ self.hits = 0 /\ self.misses = 0 /\ self.time = 0
       /\ get_hit_ratio(self).num = 0
       /\ get_stats(self) = get_stats(Fresh(old))
       /\ self = Fresh(old)
       /\ Reset(self) = self
  /\ ret = fresh_ret
  /\ self = fresh

\* accesses after a reset of a used instance
C10_Witness ==
  /\ reset_seen /\ Accessed
  /\ ncalls >= 3
  /\ self.hits >= 1 /\ self.misses >= 2

\* C11: a new LRUCache of capacity 3 fed [1,2,3,1,2,4,1,5] returns
\* miss, miss, miss, hit, hit, miss, hit, miss and ends with 3 hits, 5 misses.
C11_GoldenTrace ==
  (input = GoldenTrace /\ self.capacity = 3 /\ Accessed) =>
    /\ ret = GoldenPattern[ncalls]
    /\ ncalls = Len(GoldenTrace) => self.hits = 3 /\ self.misses = 5

\* the golden trace has been replayed to its end
C11_Witness ==
  /\ input = GoldenTrace /\ self.class = "LRUCache" /\ self.capacity = 3
  /\ Accessed /\ ncalls = Len(GoldenTrace)
  /\ self.cache = <<4, 1, 5>>

\* the greatest and the least element of a non-empty set of numbers
MaxOf(S) == CHOOSE x \in S : \A y \in S : y <= x
MinOf(S) == CHOOSE x \in S : \A y \in S : x <= y

\* the time of the last access of a resident item (hit or inserting miss)
LastTouch(i) == MaxOf(acc[i])

\* the evicting misses: the last call missed on an instance that was full
EvictingMiss ==
  Accessed /\ ret = "False" /\ ResidentCount(old) >= old.capacity

\* the items the last call removed from the resident set
Evicted == Resident(old) \ Resident(self)

\* C12: a miss of LRUCache at capacity evicts exactly the resident item whose
\* last access is the oldest and makes the new item the most recent one; the
\* cache is always ordered by last access, so items leave in that order.
C12_LruEvictsOldestTouch ==
  self.class = "LRUCache" =>
    /\ \A a, b \in DOMAIN self.cache :
         a < b => LastTouch(self.cache[a]) < LastTouch(self.cache[b])
    /\ EvictingMiss =>
         /\ Cardinality(Evicted) = 1
         /\ \A v \in Evicted : \A j \in Resident(old) : LastTouch(v) <= LastTouch(j)
         /\ Resident(self) = (Resident(old) \ Evicted) \cup {item}
         /\ self.cache[Len(self.cache)] = item

\* the evicted item was not the first one inserted: a hit had refreshed the
\* item inserted before it
C12_Witness ==
  /\ self.class = "LRUCache" /\ EvictingMiss
  /\ \E v \in Evicted : \E j \in Resident(self) \ {item} :
       MinOf(acc[j]) < MinOf(acc[v]) /\ LastTouch(v) < LastTouch(j)

\* the number of accesses of an item since it last became resident
AccessCount(i) == Cardinality(acc[i])

\* C13: a miss of LFUCache at capacity evicts a resident item of the smallest
\* access frequency and, among the residents of that frequency, the one that
\* entered its bucket (was last accessed) earliest; the recorded frequency is
\* the number of accesses since the item became resident; with capacity 2,
\* [1,1,2,3] evicts 2 and keeps 1.
C13_LfuEvictsLeastFrequent ==
  self.class = "LFUCache" =>
    /\ \A j \in Resident(self) : self.cache[j] = AccessCount(j)
    /\ EvictingMiss =>
         /\ Cardinality(Evicted) = 1
         /\ \A v \in Evicted : \A j \in Resident(old) :
              /\ AccessCount(v) <= AccessCount(j)
              /\ AccessCount(v) = AccessCount(j) => LastTouch(v) <= LastTouch(j)
    /\ ( /\ self.capacity = 2 /\ ncalls = 4
         /\ acc[1] = {1, 2} /\ acc[2] = {3} /\ acc[3] = {4} )
       => Resident(self) = {1, 3} /\ Evicted = {2}

\* the evicted item shared the smallest frequency with another resident that
\* was inserted earlier but accessed later
C13_Witness ==
  /\ self.class = "LFUCache" /\ EvictingMiss
  /\ \E v \in Evicted : \E j \in Resident(old) \ {v} :
       /\ AccessCount(j) = AccessCount(v)
       /\ LastTouch(v) < LastTouch(j)

\* the sequence [1,1,2,3] on capacity 2
C13_ExampleWitness ==
  /\ self.class = "LFUCache" /\ self.capacity = 2 /\ ncalls = 4
  /\ acc[1] = {1, 2} /\ acc[2] = {3} /\ acc[3] = {4}

\* the frequency buckets that hold item i
BucketsOf(s, i) == {f \in DOMAIN s.freq_to_items : Contains(s.freq_to_items[f], i)}

\* C14: in LFUCache every resident item is in exactly one frequency bucket,
\* whose key is the item's recorded frequency, a positive integer; no bucket
\* holds a non-resident item; when the cache is non-empty the min_freq bucket
\* exists and is non-empty.
C14_LfuBucketsConsistent ==
  self.class = "LFUCache" =>
    /\ \A i \in DOMAIN self.cache :
         /\ self.cache[i] \in Nat \ {0}
         /\ BucketsOf(self, i) = {self.cache[i]}
    /\ \A f \in DOMAIN self.freq_to_items :
         Keys(self.freq_to_items[f]) \subseteq DOMAIN self.cache
    /\ DOMAIN self.cache # {} =>
         /\ self.min_freq \in DOMAIN self.freq_to_items
         /\ self.freq_to_items[self.min_freq] # <<>>

\* a hit emptied the min_freq bucket while another bucket stayed occupied
C14_Witness ==
  /\ self.class = "LFUCache" /\ Accessed /\ ret = "True"
  /\ old.min_freq = old.cache[item]
  /\ self.min_freq = old.min_freq + 1
  /\ Cardinality(DOMAIN self.freq_to_items) = 2

\* the score of a resident item of s decayed to time t
DecayedScore(s, i, t) ==
  Decay(TDC_get(s.cache, i), s.decay_rate, t - s.last_update_time[i])

\* the time at which a resident item was inserted
InsertedAt(i) == MinOf(acc[i])

\* C15: a miss of TimeDecayedCache at capacity evicts exactly one item; its
\* score decayed to the current time is minimal among the residents, and it is
\* the earliest inserted of the residents with that minimal decayed score
\* (the first of them in the dictionary's order, which hits do not change).
C15_TdcEvictsMinimalScore ==
  self.class = "TimeDecayedCache" =>
    /\ \A a, b \in DOMAIN self.cache :
         a < b => InsertedAt(self.cache[a].item) < InsertedAt(self.cache[b].item)
    /\ EvictingMiss =>
         /\ Cardinality(Evicted) = 1
         /\ \A v \in Evicted : \A j \in Resident(old) :
              /\ DecayedScore(old, v, self.time) <= DecayedScore(old, j, self.time)
              /\ DecayedScore(old, v, self.time) = DecayedScore(old, j, self.time)
                   => InsertedAt(v) <= InsertedAt(j)

\* the evicted item tied with a resident that was inserted later, although the
\* evicted item was accessed more recently and more often
C15_Witness ==
  /\ self.class = "TimeDecayedCache" /\ EvictingMiss
  /\ \E v \in Evicted : \E j \in Resident(old) \ {v} :
       /\ DecayedScore(old, v, self.time) = DecayedScore(old, j, self.time)
       /\ LastTouch(j) < LastTouch(v)
       /\ AccessCount(j) < AccessCount(v)

\* the evicted item had a strictly smaller decayed score than an item that
\* was inserted before it
C15_MinWitness ==
  /\ self.class = "TimeDecayedCache" /\ EvictingMiss
  /\ self.decay_rate \in DecayRates
  /\ \E v \in Evicted : \E j \in Resident(old) \ {v} :
       /\ DecayedScore(old, v, self.time) < DecayedScore(old, j, self.time)
       /\ InsertedAt(j) < InsertedAt(v)
       /\ LastTouch(j) < LastTouch(v)

\* the reference score of item i at time t: one decayed unit for each access
\* since the item became resident
RECURSIVE SumDecayed(_, _, _)
SumDecayed(times, decay_rate, t) ==
  IF times = {} THEN 0
  ELSE LET u == MaxOf(times)
       IN  Decay(One, decay_rate, t - u) + SumDecayed(times \ {u}, decay_rate, t)

\* C16: with exact arithmetic, the stored score of every resident item of a
\* TimeDecayedCache, decayed from its last update to the current time, is the
\* sum of decay_rate^(time - t) over the access times t of the item since it
\* became resident, the inserting miss included.
C16_ScoreIsDecayedSum ==
  (self.class = "TimeDecayedCache" /\ self.decay_rate \in DecayRates \cup SmallDecayRates) =>
    \A i \in Resident(self) :
      /\ acc[i] # {}
      /\ DecayedScore(self, i, self.time) = SumDecayed(acc[i], self.decay_rate, self.time)

\* an item accessed several times whose score was last stored by the rescan
\* of an evicting miss, not by one of its own accesses, some time ago
C16_Witness ==
  /\ self.class = "TimeDecayedCache" /\ self.decay_rate \in DecayRates
  /\ \E i \in Resident(self) :
       /\ Cardinality(acc[i]) >= 2
       /\ self.last_update_time[i] \notin acc[i]
       /\ self.last_update_time[i] < self.time

\* C17: with a decay_rate in (0, 1/2] and exact arithmetic, a TimeDecayedCache
\* and an LRUCache of the same capacity given the same accesses hold the same
\* resident set after every access and have returned the same outcomes.
C17_SmallRateIsLru ==
  (self.class = "TimeDecayedCache" /\ fresh.class = "LRUCache") =>
    /\ Resident(self) = Resident(fresh)
    /\ ret = fresh_ret
    /\ self.hits = fresh.hits /\ self.misses = fresh.misses

\* both evicted the same item, which had been accessed more often than an
\* item that stayed
C17_Witness ==
  /\ self.class = "TimeDecayedCache" /\ fresh.class = "LRUCache"
  /\ self.capacity = fresh.capacity
  /\ EvictingMiss /\ fresh_ret = "False"
  /\ \E v \in Evicted : \E j \in Resident(self) \ {item} :
       /\ v \notin Resident(fresh)
       /\ AccessCount(j) < AccessCount(v)

\* the decay_rate 0.995
ClaimedDefaultRate == [num |-> 199, den |-> 200]

\* C18: a TimeDecayedCache constructed with only a capacity uses decay_rate
\* 0.995, and neither access nor reset changes decay_rate afterwards.
C18_DefaultDecayRate ==
  self.class = "TimeDecayedCache" =>
    /\ self.decay_rate = ClaimedDefaultRate
    /\ self.decay_rate = old.decay_rate

\* C19: every access call is all-or-nothing: when it has ended, normally or
\* with an exception, either its whole transition was applied (the counters
\* advanced and the item is resident) or the instance is as it was before.
C19_AccessAllOrNothing ==
  Accessed =>
    \/ /\ Returned
       /\ self.time = old.time + 1
       /\ self.hits + self.misses = old.hits + old.misses + 1
       /\ item \in Resident(self)
    \/ self = old

\* a comes before b in the sequence q
Before(q, a, b) == \E m, n \in DOMAIN q : m < n /\ q[m] = a /\ q[n] = b

\* q is p without x, the other entries in the order they had
SameOrderWithout(q, p, x) ==
  /\ Keys(q) = Keys(p) \ {x}
  /\ Len(q) = Cardinality(Keys(q))
  /\ \A a, b \in Keys(q) : Before(q, a, b) <=> Before(p, a, b)

\* C20: in ARCCache a hit in T1 removes the item from T1 and puts it at the
\* most-recent end of T2; a hit in T2 moves the item to the most-recent end of
\* T2 and keeps the order of the other T2 items; both leave B1, B2, p, the
\* order of the remaining T1 items and the resident set unchanged.
C20_ArcHitFrame ==
  (IsARC /\ Accessed /\ ARC_case(old, item) \in {"t1", "t2"}) =>
    /\ ret = "True"
    /\ ARC_case(old, item) = "t1" =>
         /\ SameOrderWithout(self.t1, old.t1, item)
         /\ self.t2 = Append(old.t2, item)
    /\ ARC_case(old, item) = "t2" =>
         /\ self.t1 = old.t1
         /\ Len(self.t2) = Len(old.t2)
         /\ self.t2[Len(self.t2)] = item
         /\ SameOrderWithout(SubSeq(self.t2, 1, Len(self.t2) - 1), old.t2, item)
    /\ self.b1 = old.b1 /\ self.b2 = old.b2 /\ self.p = old.p
    /\ Resident(self) = Resident(old)

\* a hit on the least recent of several T2 items, with a ghost list in use
C20_Witness ==
  /\ IsARC /\ Accessed /\ ARC_case(old, item) = "t2"
  /\ Len(old.t2) >= 2 /\ old.t2[1] = item
  /\ old.b1 # <<>> \/ old.b2 # <<>>

\* a hit on the least recent of several T1 items while T2 is in use
C20_WitnessT1 ==
  /\ IsARC /\ Accessed /\ ARC_case(old, item) = "t1"
  /\ Len(old.t1) >= 2 /\ old.t1[1] = item
  /\ old.t2 # <<>>

\* C21: after an access to an item that was in B1 or B2 the item is at the
\* most-recent end of T2, in none of B1, B2 and T1, and the access was counted
\* as a miss, also when the replacement step capped the ghost list that held
\* the item.
C21_GhostHitPromotes ==
  (IsARC /\ Accessed /\ ARC_case(old, item) \in {"b1", "b2"}) =>
    /\ self.t2 # <<>>
    /\ self.t2[Len(self.t2)] = item
    /\ item \notin Keys(self.b1) \cup Keys(self.b2) \cup Keys(self.t1)
    /\ ret = "False"
    /\ self.misses = old.misses + 1 /\ self.hits = old.hits

\* the call of _replace that an access of i makes from instance s, if any:
\* the instance as it is at the call, and the argument
ReplaceCall(s, i) ==
  LET s1 == [s EXCEPT !.time = @ + 1, !.misses = @ + 1]
      l1 == Len(s1.t1) + Len(s1.b1)
      l2 == Len(s1.t2) + Len(s1.b2)
      none == [called |-> FALSE, at |-> s1, in_b2 |-> FALSE]
  IN  CASE ARC_case(s, i) \in {"t1", "t2"} -> none
        [] ARC_case(s, i) = "b1" ->
             [called |-> TRUE, at |-> ARC_adapt_b1(s1), in_b2 |-> FALSE]
        [] ARC_case(s, i) = "b2" ->
             [called |-> TRUE, at |-> ARC_adapt_b2(s1), in_b2 |-> TRUE]
        [] OTHER ->
             IF l1 = s1.c
             THEN IF Len(s1.t1) < s1.c
                  THEN [called |-> TRUE, at |-> [s1 EXCEPT !.b1 = Tail(@)], in_b2 |-> FALSE]
                  ELSE none
             ELSE IF l1 < s1.c /\ l1 + l2 >= s1.c
                  THEN [called |-> TRUE,
                        at |-> IF l1 + l2 >= 2 * s1.c /\ s1.b2 # <<>>
                               THEN [s1 EXCEPT !.b2 = Tail(@)] ELSE s1,
                        in_b2 |-> FALSE]
                  ELSE none

\* list q is list p with x put at its most-recent end, capped or not
PushedOnto(q, p, x) == q = Append(p, x) \/ (p # <<>> /\ q = Append(Tail(p), x))

\* C22: _replace(in_b2) moves T1's least-recent item to the most-recent end
\* of B1, leaving T2 and B2 alone, if T1 is non-empty and |T1| > p or in_b2
\* and |T1| = p; otherwise, if T2 is non-empty, it moves T2's least-recent
\* item to the most-recent end of B2, leaving T1 and B1 alone; otherwise it
\* changes nothing.  It removes at most one resident item, and the moved item
\* is in the ghost list afterwards.
C22_ReplaceFollowsTarget ==
  (IsARC /\ Accessed /\ ReplaceCall(old, item).called) =>
    LET a == ReplaceCall(old, item).at
        in_b2 == ReplaceCall(old, item).in_b2
        r == ARC_replace(a, in_b2)
        from_t1 == a.t1 # <<>> /\ (Len(a.t1) > a.p \/ (in_b2 /\ Len(a.t1) = a.p))
    IN  /\ from_t1 =>
             /\ r.t1 = Tail(a.t1)
             /\ PushedOnto(r.b1, a.b1, Head(a.t1))
             /\ r.t2 = a.t2 /\ r.b2 = a.b2
        /\ (~from_t1 /\ a.t2 # <<>>) =>
             /\ r.t2 = Tail(a.t2)
             /\ PushedOnto(r.b2, a.b2, Head(a.t2))
             /\ r.t1 = a.t1 /\ r.b1 = a.b1
        /\ (~from_t1 /\ a.t2 = <<>>) => r = a
        /\ Cardinality(Resident(a) \ Resident(r)) <= 1
        /\ Resident(r) \subseteq Resident(a)
        /\ Resident(a) \ Resident(r) \subseteq Keys(r.b1) \cup Keys(r.b2)
        /\ r.p = a.p
        /\ (Returned /\ ARC_case(old, item) \in {"b1", "b2"}) =>
             self.t1 = r.t1 /\ self.p = r.p

\* _replace(True) met |T1| = p > 0 and shrank T1 although T2 held items
C22_Witness ==
  /\ IsARC /\ Accessed /\ ReplaceCall(old, item).called
  /\ ReplaceCall(old, item).in_b2
  /\ ReplaceCall(old, item).at.t1 # <<>>
  /\ ReplaceCall(old, item).at.t2 # <<>>
  /\ Len(ReplaceCall(old, item).at.t1) = ReplaceCall(old, item).at.p

\* _replace(False) met |T1| = p > 0 and shrank T2
C22_WitnessT2 ==
  /\ IsARC /\ Accessed /\ ReplaceCall(old, item).called
  /\ ~ReplaceCall(old, item).in_b2
  /\ ReplaceCall(old, item).at.t1 # <<>>
  /\ ReplaceCall(old, item).at.t2 # <<>>
  /\ Len(ReplaceCall(old, item).at.t1) = ReplaceCall(old, item).at.p

\* _replace moved an item onto a full ghost list, which was capped
C22_WitnessCapped ==
  /\ IsARC /\ Accessed /\ ReplaceCall(old, item).called
  /\ LET a == ReplaceCall(old, item).at
         r == ARC_replace(a, ReplaceCall(old, item).in_b2)
     IN  \/ Len(a.b1) = a.c /\ r.b1 # a.b1
         \/ Len(a.b2) = a.c /\ r.b2 # a.b2

\* every key of the four lists of an ARCCache
Directory(s) == Keys(s.t1) \cup Keys(s.t2) \cup Keys(s.b1) \cup Keys(s.b2)

\* C23: on a complete miss of ARCCache with |T1| + |B1| = capacity: if
\* |T1| < capacity the least-recent B1 entry is dropped and the replacement
\* procedure runs with in_b2 = false; if |T1| = capacity the least-recent T1
\* item is removed and ends in none of the four lists.  Every complete miss
\* leaves the new item at the most-recent end of T1 and p unchanged.
C23_CompleteMiss ==
  (IsARC /\ Accessed /\ ARC_case(old, item) = "miss") =>
    /\ Returned
    /\ self.t1 # <<>> /\ self.t1[Len(self.t1)] = item
    /\ self.p = old.p
    /\ (Len(old.t1) + Len(old.b1) = old.capacity /\ Len(old.t1) < old.capacity) =>
         LET from_t1 == old.t1 # <<>> /\ Len(old.t1) > old.p
             victims == IF from_t1 THEN {Head(old.t1)}
                        ELSE IF old.t2 # <<>> THEN {Head(old.t2)} ELSE {}
         IN  /\ Head(old.b1) \notin Directory(self)
             /\ ReplaceCall(old, item).called /\ ~ReplaceCall(old, item).in_b2
             /\ Resident(self) = (Resident(old) \ victims) \cup {item}
             /\ from_t1 => Head(old.t1) \in Keys(self.b1)
             /\ (~from_t1 /\ old.t2 # <<>>) => Head(old.t2) \in Keys(self.b2)
    /\ (Len(old.t1) + Len(old.b1) = old.capacity /\ Len(old.t1) = old.capacity) =>
         /\ Head(old.t1) \notin Directory(self)
         /\ self.t1 = Append(Tail(old.t1), item)
         /\ self.t2 = old.t2 /\ self.b1 = old.b1 /\ self.b2 = old.b2

\* a complete miss with |T1| + |B1| = capacity, |T1| < capacity, in which the
\* replacement took the least-recent item of T1 while T2 held items too
C23_Witness ==
  /\ IsARC /\ Accessed /\ ARC_case(old, item) = "miss"
  /\ Len(old.t1) + Len(old.b1) = old.capacity /\ Len(old.t1) < old.capacity
  /\ old.t1 # <<>> /\ old.t2 # <<>>
  /\ Head(old.t1) \in Keys(self.b1)
  /\ Head(old.b1) \notin Directory(self)

\* the same case with the replacement taking the least-recent item of T2
C23_WitnessT2 ==
  /\ IsARC /\ Accessed /\ ARC_case(old, item) = "miss"
  /\ Len(old.t1) + Len(old.b1) = old.capacity /\ Len(old.t1) < old.capacity
  /\ old.t2 # <<>>
  /\ Head(old.t2) \in Keys(self.b2)

\* a complete miss that met a full T1 of several items
C23_WitnessFullT1 ==
  /\ IsARC /\ Accessed /\ ARC_case(old, item) = "miss"
  /\ Len(old.t1) = old.capacity /\ old.capacity >= 2

\* score q is score p multiplied by decay_rate^k, in exact arithmetic
IsDecayedBy(q, p, decay_rate, k) ==
  q * Pow(decay_rate.den, k) = p * Pow(decay_rate.num, k)

\* C24: after a miss of TimeDecayedCache at full capacity every resident
\* item's last_update is the current time and every surviving item's stored
\* score is its previous stored score times decay_rate^(time - previous
\* last_update); a hit and a miss below capacity leave the stored score and
\* the last_update of every item but the accessed one unchanged.
C24_RescanFrame ==
  (self.class = "TimeDecayedCache" /\ Accessed) =>
    /\ DOMAIN self.last_update_time = Resident(self)
    /\ EvictingMiss =>
         /\ \A j \in Resident(self) : self.last_update_time[j] = self.time
         /\ \A j \in Resident(self) \ {item} :
              /\ j \in Resident(old)
              /\ TDC_get(self.cache, j) = DecayedScore(old, j, self.time)
              /\ self.decay_rate \in DecayRates =>
                   IsDecayedBy(TDC_get(self.cache, j), TDC_get(old.cache, j),
                               self.decay_rate, self.time - old.last_update_time[j])
    /\ ~EvictingMiss =>
         /\ Resident(self) = Resident(old) \cup {item}
         /\ \A j \in Resident(old) \ {item} :
              /\ TDC_get(self.cache, j) = TDC_get(old.cache, j)
              /\ self.last_update_time[j] = old.last_update_time[j]

\* a rescan restamped a survivor of several accesses whose score had been
\* stored two or more steps before, and stored a smaller score for it
C24_Witness ==
  /\ self.class = "TimeDecayedCache" /\ EvictingMiss
  /\ self.decay_rate \in DecayRates
  /\ \E j \in Resident(self) \ {item} :
       /\ old.last_update_time[j] <= self.time - 2
       /\ AccessCount(j) >= 2
       /\ TDC_get(self.cache, j) < TDC_get(old.cache, j)

\* a hit while another resident carried an older stamp
C24_WitnessHit ==
  /\ self.class = "TimeDecayedCache" /\ Accessed /\ ret = "True"
  /\ \E j \in Resident(self) \ {item} : self.last_update_time[j] < self.time - 1

\* C25: in every policy an access evicts at most one resident item, and none
\* when the resident count before the call is below capacity or the access is
\* a hit; so the resident count never decreases across an access and, once at
\* capacity, is at capacity after every later access until reset.
C25_AtMostOneEviction ==
  Accessed =>
    /\ Cardinality(Evicted) <= 1
    /\ (ResidentCount(old) < old.capacity \/ item \in Resident(old)) => Evicted = {}
    /\ ResidentCount(self) >= ResidentCount(old)
    /\ ResidentCount(old) = old.capacity => ResidentCount(self) = self.capacity

\* C26: in every reachable state of an ARCCache |T1| + |B1| <= capacity, so a
\* complete miss finds l1 = capacity or l1 < capacity.
C26_RecencySideBounded ==
  IsARC => Len(self.t1) + Len(self.b1) <= self.capacity

\* a complete miss met l1 = capacity with items in both T1 and B1 and left
\* l1 = capacity behind
C26_Witness ==
  /\ IsARC /\ Accessed /\ ARC_case(old, item) = "miss"
  /\ old.t1 # <<>> /\ old.b1 # <<>>
  /\ Len(old.t1) + Len(old.b1) = old.capacity
  /\ Len(self.t1) + Len(self.b1) = self.capacity

\* C27: in every reachable state of an ARCCache the directory is bounded:
\* |T1| + |T2| + |B1| + |B2| <= 2 * capacity.
C27_DirectoryBounded ==
  IsARC =>
    Len(self.t1) + Len(self.t2) + Len(self.b1) + Len(self.b2) <= 2 * self.capacity

\* a complete miss met a directory of 2 * capacity keys with l1 < capacity,
\* dropped the least-recent B2 entry and left 2 * capacity keys behind
C27_Witness ==
  /\ IsARC /\ Accessed /\ ARC_case(old, item) = "miss"
  /\ old.b2 # <<>>
  /\ Len(old.t1) + Len(old.b1) < old.capacity
  /\ Len(old.t1) + Len(old.t2) + Len(old.b1) + Len(old.b2) = 2 * old.capacity
  /\ Head(old.b2) \notin Directory(self)
  /\ Len(self.t1) + Len(self.t2) + Len(self.b1) + Len(self.b2) = 2 * self.capacity

\* a directory of 2 * capacity keys spread over all four lists
C27_WitnessFull ==
  /\ IsARC /\ Accessed /\ self.capacity >= 2
  /\ self.t1 # <<>> /\ self.t2 # <<>> /\ self.b1 # <<>> /\ self.b2 # <<>>
  /\ Len(self.t1) + Len(self.t2) + Len(self.b1) + Len(self.b2) = 2 * self.capacity

====
